---- MODULE Spec2Model ----
(***************************************************************************)
(* Conversation memory of the Gyanika voice assistant.                     *)
(*                                                                         *)
(* Modelled from postgres_memory.py (PostgresMemory: short-term buffer,    *)
(* recall cache, persistence of turns in the relational store), memory.py  *)
(* (GyanikaBrain: short-term buffer) and agent.py (the voice driver that   *)
(* assembles turns from transcription / chat-item / speech events).        *)
(*                                                                         *)
(* Texts are TLA+ strings; slicing, truncation and strip() are computed on *)
(* their characters.  Python's None is 0 for identifiers and the empty     *)
(* tuple for optional texts (a present text t is <<t>>).                   *)
(***************************************************************************)
EXTENDS Integers, Sequences, FiniteSets, TLC

VARIABLES
    users,                    \* table users: id (index) -> [username, email]
    conversations,            \* table conversations: id (index) -> [user_id, ended]
    messages,                 \* table messages in commit order: [conversation_id, role, content]
    variant,                  \* class of the memory instance: "PostgresMemory" or "GyanikaBrain"
    phase,                    \* "new" (not constructed), "live", "failed" (constructor raised)
    db_user_id,               \* self.db_user_id: Unset (attribute missing), None or a users id
    current_conversation_id,  \* self.current_conversation_id: None or a conversations id
    short_term_memory,        \* self.short_term_memory: sequence of [user, agent, timestamp]
    cached_memories,          \* self._cached_memories: <<>> (None) or <<text>>
    conversation_context,     \* agent.py: the driver's conversation_context dictionary
    now,                      \* wall clock, whole seconds
    call,                     \* observation: the last operation, its result and its store traffic
    appended,                 \* history: every turn handed to add_to_short_term, in call order
    last_recall,              \* history: <<>> or <<[text, cached]>>, the last recall since the last append
    event,                    \* observation: the last event delivered to the driver: its name, the text it
                              \* carried ("" when the handler ignored it) and the handler's verdict
    pending,                  \* history: <<>> or <<[text, at]>>, the accepted transcription waiting in user_msg
    memory_instances,         \* postgres_memory._memory_instances: user_id -> instance (0: no entry)
    instances,                \* every PostgresMemory the worker constructed, in construction order
    sessions,                 \* the jobs of the worker (one thread each): entrypoint's locals and position
    logger,                   \* conversation_logger.py and backup.py: the two backends, the module's
                              \* globals, the data-channel driver's slots, the last call observed
    loader,                   \* populate_qdrant.py: the loader's counters and the last stub call observed
    admin,                    \* admin_panel.py: the tables its handlers write and the last request observed
    spoken                    \* environment: what has been delivered of each utterance the user spoke

vars == <<users, conversations, messages, variant, phase, db_user_id,
          current_conversation_id, short_term_memory, cached_memories,
          conversation_context, now, call, appended, last_recall, event, pending,
          memory_instances, instances, sessions, logger, loader, admin, spoken>>

storeVars == <<users, conversations, messages>>
memVars == <<db_user_id, current_conversation_id, short_term_memory, cached_memories>>
workerVars == <<memory_instances, instances, sessions>>
toolVars == <<logger, loader, admin>>

(***************************************************************************)
(* Bounds of the model.                                                    *)
(***************************************************************************)
MaxAppends == 1
MaxBufAppends == 7
MaxBrainAppends == 12
MaxDriverAppends == 2
MaxTime == 2
MaxLogged == 2
MaxFiles == 6

(***************************************************************************)
(* Program constants.                                                      *)
(***************************************************************************)
ShortTermCap == 5
BrainShortTermCap == 10
PastLimit == 30
PastShown == 10
PastCut == 100
RecentShown == 3
RecentCut == 80
DebounceSeconds == 2

None == 0
Unset == -1
NoText == << >>
Some(t) == << t >>

(***************************************************************************)
(* Python list and string primitives.                                      *)
(***************************************************************************)
Min(a, b) == IF a < b THEN a ELSE b

\* seq[-n:]
LastN(seq, n) == SubSeq(seq, Len(seq) - Min(n, Len(seq)) + 1, Len(seq))

\* seq[:n]
FirstN(seq, n) == SubSeq(seq, 1, Min(n, Len(seq)))

\* list(reversed(seq))
Reverse(seq) == [i \in 1..Len(seq) |-> seq[Len(seq) + 1 - i]]

IsSpace(c) == c \in {" ", "\n", "\t", "\r"}

RECURSIVE LStrip(_)
LStrip(s) ==
    IF Len(s) > 0 /\ IsSpace(SubSeq(s, 1, 1)) THEN LStrip(SubSeq(s, 2, Len(s))) ELSE s

RECURSIVE RStrip(_)
RStrip(s) ==
    IF Len(s) > 0 /\ IsSpace(SubSeq(s, Len(s), Len(s)))
    THEN RStrip(SubSeq(s, 1, Len(s) - 1)) ELSE s

\* str.strip()
Strip(s) == LStrip(RStrip(s))

\* s[:n] + "..." if len(s) > n else s
Truncate(s, n) == IF Len(s) > n THEN SubSeq(s, 1, n) \o "..." ELSE s

\* Python truthiness of an Optional[str]: None and "" are falsy
Truthy(opt) == opt # NoText /\ opt[1] # ""

\* t in s
Contains(s, t) == \E i \in 1..(Len(s) - Len(t) + 1) : SubSeq(s, i, i + Len(t) - 1) = t

EndsWith(s, t) == Len(t) <= Len(s) /\ SubSeq(s, Len(s) - Len(t) + 1, Len(s)) = t

RECURSIVE Repeat(_, _)
Repeat(s, n) == IF n = 0 THEN "" ELSE s \o Repeat(s, n - 1)

RECURSIVE Concat(_)
Concat(lines) == IF lines = << >> THEN "" ELSE Head(lines) \o Concat(Tail(lines))

(***************************************************************************)
(* Inputs.                                                                 *)
(***************************************************************************)
UserId == "alice"
UserName == "Alice"

\* 101 characters: cut by both truncations
LongText == Repeat("0123456789", 10) \o "Z"

Outcomes == {"ok", "noconn", "raise"}   \* of one get_db_connection() + query block
Queries == {NoText, Some("gravity")}

Turns == { <<"What is gravity?", "Gravity pulls objects together.">>,
           <<"", "  ">> }

DirectContents == { "a note" }

BufTurns == { <<"What is gravity?", "Gravity pulls objects together.">>,
              <<LongText, "ok \n">> }

(***************************************************************************)
(* The relational store.                                                   *)
(***************************************************************************)
Bob == [username |-> "bob", email |-> "bob@gyanika.local"]
Alice == [username |-> UserId, email |-> "alice@gyanika.local"]

PastContent(i) ==
    CASE i % 3 = 1 -> "What is photosynthesis?"
      [] i % 3 = 2 -> LongText
      [] OTHER     -> "Plants make food from light."

PastMessage(conv, i) ==
    [conversation_id |-> conv,
     role |-> IF i % 2 = 1 THEN "user" ELSE "assistant",
     content |-> PastContent(i)]

BobMessage == [conversation_id |-> 1, role |-> "user", content |-> "bob's secret"]

\* The store before the session: bob's conversation 1, and for a returning
\* user n messages of alice's earlier conversation 2.
SeedStore(n) ==
    IF n = 0
    THEN [users |-> << Bob >>,
          conversations |-> << [user_id |-> 1, ended |-> TRUE] >>,
          messages |-> << BobMessage >>]
    ELSE [users |-> << Bob, Alice >>,
          conversations |-> << [user_id |-> 1, ended |-> TRUE],
                               [user_id |-> 2, ended |-> TRUE] >>,
          messages |-> << BobMessage >> \o [i \in 1..n |-> PastMessage(2, i)]]

SeedSizes == {0, 10}

NoCall == [op |-> "none", ret |-> "", raised |-> FALSE, io |-> << >>]

NoEvent == [name |-> "none", text |-> "", verdict |-> ""]

NoContext ==
    [user_msg |-> NoText, agent_msg |-> NoText,
     last_saved_user_msg |-> NoText, last_saved_agent_msg |-> NoText,
     processing |-> FALSE,
     last_transcription |-> NoText, last_transcription_time |-> 0]

(***************************************************************************)
(* PostgresMemory: construction.                                           *)
(***************************************************************************)
\* id::text of a users row
IdText(i) == "uuid-" \o SubSeq("0123456789", i + 1, i + 1)

\* SELECT id FROM users WHERE <column> = value
UsersWhere(column, value) == { i \in 1..Len(users) : users[i][column] = value }

\* cur.fetchone() of a SELECT id: the first matching row, or None
FetchOne(ids) == IF ids = {} THEN None ELSE CHOOSE i \in ids : \A j \in ids : i <= j

\* _ensure_user_exists: [db_user_id, users, io]; uid is the attribute before the call
EnsureUserExists(uid, o) ==
    LET byName == FetchOne(UsersWhere("username", UserId))
        byEmail == FetchOne(UsersWhere("email", UserId))
        byUuid == FetchOne({ i \in 1..Len(users) : IdText(i) = UserId })
        found == IF byName # None THEN byName
                 ELSE IF byEmail # None THEN byEmail ELSE byUuid
    IN  CASE o = "noconn" ->
               [db_user_id |-> uid, users |-> users, io |-> << "connect_fail" >>]
          [] o = "raise" ->
               [db_user_id |-> None, users |-> users,
                io |-> << "connect", "execute_error", "rollback", "close" >>]
          [] OTHER ->
               IF found # None
               THEN [db_user_id |-> found, users |-> users,
                     io |-> << "connect", "execute", "commit", "close" >>]
               ELSE [db_user_id |-> Len(users) + 1,
                     users |-> Append(users, [username |-> UserId,
                                              email |-> UserId \o "@gyanika.local"]),
                     io |-> << "connect", "execute", "commit", "close" >>]

\* _start_conversation: [raised, current_conversation_id, conversations, io]
StartConversation(uid, o) ==
    CASE o = "noconn" ->
           [raised |-> FALSE, current_conversation_id |-> None,
            conversations |-> conversations, io |-> << "connect_fail" >>]
      [] o # "noconn" /\ uid = Unset ->      \* self.db_user_id: AttributeError
           [raised |-> TRUE, current_conversation_id |-> None,
            conversations |-> conversations, io |-> << "connect" >>]
      [] o # "noconn" /\ uid = None ->       \* early return, the connection stays open
           [raised |-> FALSE, current_conversation_id |-> None,
            conversations |-> conversations, io |-> << "connect" >>]
      [] o = "raise" /\ uid > None ->
           [raised |-> FALSE, current_conversation_id |-> None,
            conversations |-> conversations,
            io |-> << "connect", "execute_error", "rollback", "close" >>]
      [] OTHER ->
           [raised |-> FALSE, current_conversation_id |-> Len(conversations) + 1,
            conversations |-> Append(conversations, [user_id |-> uid, ended |-> FALSE]),
            io |-> << "connect", "execute", "commit", "close" >>]

\* PostgresMemory(user_id, user_name)
Construct(o1, o2) ==
    /\ variant = "PostgresMemory"
    /\ phase = "new"
    /\ LET e == EnsureUserExists(Unset, o1)
           s == StartConversation(e.db_user_id, o2)
       IN  /\ users' = e.users
           /\ conversations' = s.conversations
           /\ phase' = IF s.raised THEN "failed" ELSE "live"
           /\ db_user_id' = e.db_user_id
           /\ current_conversation_id' = s.current_conversation_id
           /\ call' = [op |-> "__init__", ret |-> "",
                       raised |-> s.raised, io |-> e.io \o s.io]
    /\ short_term_memory' = << >>
    /\ cached_memories' = NoText
    /\ UNCHANGED <<messages, variant, conversation_context, now, appended,
                   last_recall, event, pending>>
    /\ UNCHANGED workerVars
    /\ UNCHANGED toolVars

(***************************************************************************)
(* PostgresMemory: add_message and add_to_short_term.                      *)
(***************************************************************************)
\* add_message writes iff it got a connection, a conversation is open and
\* the INSERT did not raise
\* a raising INSERT tried again after the rollback, the second try succeeding
AddMessageRows_Retries(rows, role, content, o) ==
    IF o \in {"ok", "raise"} /\ current_conversation_id # None
    THEN Append(rows, [conversation_id |-> current_conversation_id,
                       role |-> role, content |-> content])
    ELSE rows

AddMessageRows(rows, role, content, o) ==
    IF o = "ok" /\ current_conversation_id # None
    THEN Append(rows, [conversation_id |-> current_conversation_id,
                       role |-> role, content |-> content])
    ELSE rows

AddMessageIO(o) ==
    CASE o = "noconn" -> << "connect_fail" >>
      [] o # "noconn" /\ current_conversation_id = None -> << "connect" >>
      [] o = "raise" /\ current_conversation_id # None ->
           << "connect", "execute_error", "rollback", "close" >>
      [] OTHER -> << "connect", "execute", "commit", "close" >>

\* memory.add_message(role, content) called on its own
AddMessage(role, content, o) ==
    /\ variant = "PostgresMemory"
    /\ phase = "live"
    /\ \A i \in 1..Len(messages) : messages[i].content # content
    /\ messages' = AddMessageRows(messages, role, content, o)
    /\ call' = [op |-> "add_message", ret |-> "", raised |-> FALSE,
                io |-> AddMessageIO(o)]
    /\ UNCHANGED <<users, conversations, variant, phase, memVars, conversation_context,
                   now, appended, last_recall, event, pending>>
    /\ UNCHANGED workerVars
    /\ UNCHANGED toolVars

\* the cut written [:5], which keeps the oldest turns
ShortTermAfter_KeepsOldest(buf, turn) ==
    LET b == Append(buf, turn)
    IN  IF Len(b) > ShortTermCap THEN FirstN(b, ShortTermCap) ELSE b

\* self.short_term_memory after the append and the cut to the last 5
ShortTermAfter(buf, turn) ==
    LET b == Append(buf, turn)
    IN  IF Len(b) > ShortTermCap THEN LastN(b, ShortTermCap) ELSE b

\* the cache left as it was
CacheAfterAppend_Kept(cache) == cache

\* self._cached_memories after add_to_short_term
CacheAfterAppend(cache) == NoText

\* add_message letting a failed write escape: the call ends before the cache
\* is cleared
AppendTurn_FailureEscapes(user_msg, agent_msg, o1, o2) ==
    /\ LET turn == [user |-> user_msg, agent |-> agent_msg, timestamp |-> now]
       IN  /\ short_term_memory' = ShortTermAfter(short_term_memory, turn)
           /\ appended' = Append(appended, turn)
    /\ messages' = IF o1 = "ok"
                   THEN AddMessageRows(AddMessageRows(messages, "user", user_msg, o1),
                                       "assistant", agent_msg, o2)
                   ELSE messages
    /\ cached_memories' = IF o1 = "ok" /\ o2 = "ok" THEN NoText ELSE cached_memories
    /\ last_recall' = NoText

\* the two add_message calls in the other order
AppendTurn_AssistantFirst(user_msg, agent_msg, o1, o2) ==
    /\ LET turn == [user |-> user_msg, agent |-> agent_msg, timestamp |-> now]
       IN  /\ short_term_memory' = ShortTermAfter(short_term_memory, turn)
           /\ appended' = Append(appended, turn)
    /\ messages' = AddMessageRows(AddMessageRows(messages, "assistant", agent_msg, o2),
                                  "user", user_msg, o1)
    /\ cached_memories' = CacheAfterAppend(cached_memories)
    /\ last_recall' = NoText

\* the effect of memory.add_to_short_term(user_msg, agent_msg) on the instance
\* and the store
AppendTurn(user_msg, agent_msg, o1, o2) ==
    /\ LET turn == [user |-> user_msg, agent |-> agent_msg, timestamp |-> now]
       IN  /\ short_term_memory' = ShortTermAfter(short_term_memory, turn)
           /\ appended' = Append(appended, turn)
    /\ messages' = AddMessageRows(AddMessageRows(messages, "user", user_msg, o1),
                                  "assistant", agent_msg, o2)
    /\ cached_memories' = CacheAfterAppend(cached_memories)
    /\ last_recall' = NoText

AddToShortTerm(user_msg, agent_msg, o1, o2) ==
    /\ variant = "PostgresMemory"
    /\ phase = "live"
    /\ AppendTurn(user_msg, agent_msg, o1, o2)
    /\ call' = [op |-> "add_to_short_term", ret |-> "", raised |-> FALSE,
                io |-> AddMessageIO(o1) \o AddMessageIO(o2)]
    /\ UNCHANGED <<users, conversations, variant, phase, db_user_id,
                   current_conversation_id, conversation_context, now, event, pending>>
    /\ UNCHANGED workerVars
    /\ UNCHANGED toolVars

(***************************************************************************)
(* PostgresMemory: recall_memories.                                        *)
(***************************************************************************)
\* SELECT ... WHERE c.user_id = uid AND c.id != cur ORDER BY m.created_at DESC LIMIT 30
QueryPast(rows, convs, uid, cur) ==
    LET Mine(m) == convs[m.conversation_id].user_id = uid
                   /\ m.conversation_id # cur
    IN  FirstN(Reverse(SelectSeq(rows, Mine)), PastLimit)

\* the cut written [:10], which keeps the oldest of the fetched messages
ShownPast_Oldest(past) == FirstN(Reverse(past), PastShown)

\* list(reversed(past_messages))[-10:]
ShownPast(past) == LastN(Reverse(past), PastShown)

RoleLabel(role) == IF role = "user" THEN "User" ELSE "Gyanika"

PastLine(m) == "- **" \o RoleLabel(m.role) \o "**: " \o Truncate(m.content, PastCut) \o "\n"

\* memory_text for a non-empty result of the query
FormatPast(past) ==
    LET shown == ShownPast(past)
    IN  "## Brief History with " \o UserName \o "\n\n"
        \o Concat([i \in 1..Len(shown) |-> PastLine(shown[i])])

\* recall_memories past the cache check: [ret, raised, cache, io]
RecallMiss(uid, cur, rows, convs, o) ==
    LET past == QueryPast(rows, convs, uid, cur)
    IN  CASE o = "noconn" ->
               [ret |-> "", raised |-> FALSE, cache |-> NoText,
                io |-> << "connect_fail" >>]
          [] o # "noconn" /\ uid = Unset ->      \* self.db_user_id: AttributeError
               [ret |-> "", raised |-> TRUE, cache |-> NoText, io |-> << "connect" >>]
          [] o # "noconn" /\ uid = None ->       \* early return, the connection stays open
               [ret |-> "", raised |-> FALSE, cache |-> NoText, io |-> << "connect" >>]
          [] o = "raise" /\ uid > None ->
               [ret |-> "", raised |-> FALSE, cache |-> NoText,
                io |-> << "connect", "execute_error", "close" >>]
          [] OTHER ->
               IF past = << >>
               THEN [ret |-> "", raised |-> FALSE, cache |-> Some(""),
                     io |-> << "connect", "execute", "close" >>]
               ELSE [ret |-> FormatPast(past), raised |-> FALSE,
                     cache |-> Some(FormatPast(past)),
                     io |-> << "connect", "execute", "close" >>]

\* the cache ignored: every call reads the store
RecallOn_Refetch(cache, uid, cur, rows, convs, o) == RecallMiss(uid, cur, rows, convs, o)

\* the cache tested for truth instead of `is not None`: an empty cached
\* result is fetched again
RecallOn_RefetchEmpty(cache, uid, cur, rows, convs, o) ==
    IF cache # NoText /\ cache[1] # ""
    THEN [ret |-> cache[1], raised |-> FALSE, cache |-> cache, io |-> << >>]
    ELSE RecallMiss(uid, cur, rows, convs, o)

\* recall_memories on an instance with the given fields
RecallOn(cache, uid, cur, rows, convs, o) ==
    IF cache # NoText
    THEN [ret |-> cache[1], raised |-> FALSE, cache |-> cache, io |-> << >>]
    ELSE RecallMiss(uid, cur, rows, convs, o)

Recall(o) ==
    RecallOn(cached_memories, db_user_id, current_conversation_id, messages,
             conversations, o)

\* what a recall call leaves in the history of recalls
RecallSeen(r, seen) ==
    IF r.raised THEN seen ELSE Some([text |-> r.ret, cached |-> r.cache # NoText])

RecallMemories(query, o) ==
    /\ variant = "PostgresMemory"
    /\ phase = "live"
    /\ LET r == Recall(o)
       IN  /\ cached_memories' = r.cache
           /\ call' = [op |-> "recall_memories", ret |-> r.ret,
                       raised |-> r.raised, io |-> r.io]
           /\ last_recall' = RecallSeen(r, last_recall)
    /\ UNCHANGED <<storeVars, variant, phase, db_user_id, current_conversation_id,
                   short_term_memory, conversation_context, now, appended,
                   event, pending>>
    /\ UNCHANGED workerVars
    /\ UNCHANGED toolVars

(***************************************************************************)
(* PostgresMemory: get_memory_context_prompt.                              *)
(***************************************************************************)
RecentLine(turn) ==
    "- User: " \o Truncate(turn.user, RecentCut) \o "\n- Gyanika: "
    \o Truncate(turn.agent, RecentCut) \o "\n"

\* the slice written [:3], which renders the oldest turns of the buffer
FormatRecent_Oldest(buf) ==
    LET shown == FirstN(buf, RecentShown)
    IN  IF buf = << >> THEN ""
        ELSE "## Recent (Current Session)\n"
             \o Concat([i \in 1..Len(shown) |-> RecentLine(shown[i])])

\* short_term: the last 3 turns of the buffer under their header
FormatRecent(buf) ==
    LET shown == LastN(buf, RecentShown)
    IN  IF buf = << >> THEN ""
        ELSE "## Recent (Current Session)\n"
             \o Concat([i \in 1..Len(shown) |-> RecentLine(shown[i])])

\* the returned text, given short_term and past_memories
ContextPrompt(short_term, past_memories) ==
    IF past_memories # "" \/ short_term # ""
    THEN Strip("# Memory for " \o UserName \o "\n" \o short_term \o "\n" \o past_memories)
    ELSE ""

GetMemoryContextPrompt(current_query, o) ==
    /\ variant = "PostgresMemory"
    /\ phase = "live"
    /\ LET r == Recall(o)
       IN  /\ cached_memories' = r.cache
           /\ call' = [op |-> "get_memory_context_prompt", ret |-> IF r.raised THEN ""
                               ELSE ContextPrompt(FormatRecent(short_term_memory), r.ret),
                       raised |-> r.raised, io |-> r.io]
           /\ last_recall' = RecallSeen(r, last_recall)
    /\ UNCHANGED <<storeVars, variant, phase, db_user_id, current_conversation_id,
                   short_term_memory, conversation_context, now, appended,
                   event, pending>>
    /\ UNCHANGED workerVars
    /\ UNCHANGED toolVars

(***************************************************************************)
(* PostgresMemory: end_conversation; other sessions' writes.               *)
(***************************************************************************)
EndConversationIO(o) ==
    CASE o = "noconn" -> << "connect_fail" >>
      [] o # "noconn" /\ current_conversation_id = None -> << "connect" >>
      [] o = "raise" /\ current_conversation_id # None ->
           << "connect", "execute_error", "rollback", "close" >>
      [] OTHER -> << "connect", "execute", "commit", "close" >>

EndConversation(o) ==
    /\ variant = "PostgresMemory"
    /\ phase = "live"
    /\ conversations' =
          IF o = "ok" /\ current_conversation_id # None
          THEN [conversations EXCEPT ![current_conversation_id].ended = TRUE]
          ELSE conversations
    /\ call' = [op |-> "end_conversation", ret |-> "",
                raised |-> FALSE, io |-> EndConversationIO(o)]
    /\ UNCHANGED <<users, messages, variant, phase, memVars, conversation_context,
                   now, appended, last_recall, event, pending>>
    /\ UNCHANGED workerVars
    /\ UNCHANGED toolVars

OtherContents == { "I like cricket." }

\* a message committed by another session, to a conversation that is not
\* this instance's
OtherSessionWrites(conv, content) ==
    /\ conv \in 1..Len(conversations)
    /\ conv # current_conversation_id
    /\ \A i \in 1..Len(messages) : messages[i].content # content
    /\ messages' = Append(messages, [conversation_id |-> conv, role |-> "user",
                                     content |-> content])
    /\ UNCHANGED <<users, conversations, variant, phase, memVars, conversation_context,
                   now, call, appended, last_recall, event, pending>>
    /\ UNCHANGED workerVars
    /\ UNCHANGED toolVars

(***************************************************************************)
(* GyanikaBrain: add_to_short_term.                                        *)
(***************************************************************************)
\* self.short_term_memory after the append and the pop(0)
BrainShortTermAfter(buf, turn) ==
    LET b == Append(buf, turn)
    IN  IF Len(b) > BrainShortTermCap THEN Tail(b) ELSE b

BrainAddToShortTerm(user_msg, agent_msg) ==
    /\ variant = "GyanikaBrain"
    /\ LET turn == [user |-> user_msg, agent |-> agent_msg, timestamp |-> now]
       IN  /\ short_term_memory' = BrainShortTermAfter(short_term_memory, turn)
           /\ appended' = Append(appended, turn)
    /\ call' = [op |-> "add_to_short_term", ret |-> "", raised |-> FALSE, io |-> << >>]
    /\ UNCHANGED <<storeVars, variant, phase, db_user_id, current_conversation_id,
                   cached_memories, conversation_context, now, last_recall,
                   event, pending>>
    /\ UNCHANGED workerVars
    /\ UNCHANGED toolVars

(***************************************************************************)
(* agent.py: the voice driver of one session.                              *)
(***************************************************************************)
\* entrypoint: get_postgres_memory(user_id, user_name, force_new=True), then
\* memory.recall_memories() inside try/except
Entrypoint(o1, o2, o3) ==
    /\ variant = "PostgresMemory"
    /\ phase = "new"
    /\ LET e == EnsureUserExists(Unset, o1)
           s == StartConversation(e.db_user_id, o2)
           r == RecallOn(NoText, e.db_user_id, s.current_conversation_id, messages,
                         s.conversations, o3)
       IN  /\ users' = e.users
           /\ conversations' = s.conversations
           /\ phase' = IF s.raised THEN "failed" ELSE "live"
           /\ db_user_id' = e.db_user_id
           /\ current_conversation_id' = s.current_conversation_id
           /\ cached_memories' = IF s.raised THEN NoText ELSE r.cache
           /\ last_recall' = IF s.raised THEN NoText ELSE RecallSeen(r, NoText)
           /\ call' = IF s.raised
                      THEN [op |-> "__init__", ret |-> "", raised |-> TRUE,
                            io |-> e.io \o s.io]
                      ELSE [op |-> "recall_memories", ret |-> r.ret,
                            raised |-> r.raised, io |-> r.io]
    /\ short_term_memory' = << >>
    /\ conversation_context' = NoContext
    /\ UNCHANGED <<messages, variant, now, appended, event, pending>>
    /\ UNCHANGED workerVars
    /\ UNCHANGED toolVars

\* save_conversation_if_ready without the comparison with the last saved pair
Ready_NoDedup(ctx) ==
    /\ ~ctx.processing
    /\ Truthy(ctx.user_msg)
    /\ Truthy(ctx.agent_msg)

\* save_conversation_if_ready, entered with the dictionary ctx
Ready(ctx) ==
    /\ ~ctx.processing
    /\ Truthy(ctx.user_msg)
    /\ Truthy(ctx.agent_msg)
    /\ ~(ctx.user_msg = ctx.last_saved_user_msg /\ ctx.agent_msg = ctx.last_saved_agent_msg)

SaveConversationIfReady(ctx, o1, o2) ==
    IF Ready(ctx)
    THEN /\ AppendTurn(ctx.user_msg[1], ctx.agent_msg[1], o1, o2)
         /\ conversation_context' =
               [ctx EXCEPT !.last_saved_user_msg = ctx.user_msg,
                           !.last_saved_agent_msg = ctx.agent_msg,
                           !.user_msg = NoText,
                           !.agent_msg = NoText]
         /\ call' = [op |-> "add_to_short_term", ret |-> "", raised |-> FALSE,
                     io |-> AddMessageIO(o1) \o AddMessageIO(o2)]
         /\ pending' = NoText
    ELSE /\ conversation_context' = ctx
         /\ UNCHANGED <<messages, short_term_memory, cached_memories, appended,
                        last_recall, call, pending>>

\* the debounce written <=, which also drops a repeat exactly 2 seconds later
TranscriptVerdict_Inclusive(ctx, transcript, is_final) ==
    LET user_query == Strip(transcript)
    IN  IF ~(is_final /\ transcript # "") \/ user_query = "" THEN "ignored"
        ELSE IF /\ Some(user_query) = ctx.last_transcription
                /\ now - ctx.last_transcription_time <= DebounceSeconds
             THEN "duplicate"
             ELSE "accepted"

\* the verdict of on_user_transcribed on an event
TranscriptVerdict(ctx, transcript, is_final) ==
    LET user_query == Strip(transcript)
    IN  IF ~(is_final /\ transcript # "") \/ user_query = "" THEN "ignored"
        ELSE IF /\ Some(user_query) = ctx.last_transcription
                /\ now - ctx.last_transcription_time < DebounceSeconds
             THEN "duplicate"
             ELSE "accepted"

\* @session.on("user_input_transcribed")
OnUserTranscribed(transcript, is_final, o) ==
    /\ variant = "PostgresMemory"
    /\ phase = "live"
    /\ LET ctx == conversation_context
           user_query == Strip(transcript)
           verdict == TranscriptVerdict(ctx, transcript, is_final)
           r == Recall(o)
       IN  /\ event' = [name |-> "user_input_transcribed",
                        text |-> IF verdict = "ignored" THEN "" ELSE user_query,
                        verdict |-> verdict]
           /\ IF verdict = "accepted"
              THEN /\ conversation_context' =
                         [ctx EXCEPT !.last_transcription = Some(user_query),
                                     !.last_transcription_time = now,
                                     !.user_msg = Some(user_query)]
                   /\ pending' = Some([text |-> user_query, at |-> now])
                   \* memory.get_memory_context_prompt(user_query) inside try/except
                   /\ cached_memories' = r.cache
                   /\ last_recall' = RecallSeen(r, last_recall)
                   /\ call' = [op |-> "get_memory_context_prompt",
                               ret |-> IF r.raised THEN ""
                                       ELSE ContextPrompt(FormatRecent(short_term_memory),
                                                          r.ret),
                               raised |-> r.raised, io |-> r.io]
              ELSE UNCHANGED <<conversation_context, pending, cached_memories,
                               last_recall, call>>
    /\ UNCHANGED <<storeVars, variant, phase, db_user_id, current_conversation_id,
                   short_term_memory, now, appended>>
    /\ UNCHANGED workerVars
    /\ UNCHANGED toolVars

\* @session.on("conversation_item_added"); text is the item's text content
OnConversationItem(role, text, o1, o2) ==
    /\ variant = "PostgresMemory"
    /\ phase = "live"
    /\ LET ctx == conversation_context
       IN  CASE role \in {"assistant", "model"} /\ text # "" ->
                  /\ event' = [name |-> "conversation_item_added", text |-> text,
                               verdict |-> "assistant"]
                  /\ SaveConversationIfReady([ctx EXCEPT !.agent_msg = Some(text)], o1, o2)
             [] role = "user" /\ text # "" /\ ~Truthy(ctx.user_msg) ->
                  /\ event' = [name |-> "conversation_item_added", text |-> text,
                               verdict |-> "user"]
                  /\ conversation_context' = [ctx EXCEPT !.user_msg = Some(text)]
                  /\ UNCHANGED <<messages, short_term_memory, cached_memories, appended,
                                 last_recall, call, pending>>
             [] OTHER ->
                  /\ event' = [name |-> "conversation_item_added", text |-> "",
                               verdict |-> "ignored"]
                  /\ UNCHANGED <<conversation_context, messages, short_term_memory,
                                 cached_memories, appended, last_recall, call, pending>>
    /\ UNCHANGED <<users, conversations, variant, phase, db_user_id,
                   current_conversation_id, now>>
    /\ UNCHANGED workerVars
    /\ UNCHANGED toolVars

\* @session.on("agent_speech_committed")
OnSpeechCommitted(text, o1, o2) ==
    /\ variant = "PostgresMemory"
    /\ phase = "live"
    /\ LET ctx == conversation_context
       IN  IF text # "" /\ ~Truthy(ctx.agent_msg)
           THEN /\ event' = [name |-> "agent_speech_committed", text |-> text,
                             verdict |-> "assistant"]
                /\ SaveConversationIfReady([ctx EXCEPT !.agent_msg = Some(text)], o1, o2)
           ELSE /\ event' = [name |-> "agent_speech_committed", text |-> "",
                             verdict |-> "ignored"]
                /\ UNCHANGED <<conversation_context, messages, short_term_memory,
                               cached_memories, appended, last_recall, call, pending>>
    /\ UNCHANGED <<users, conversations, variant, phase, db_user_id,
                   current_conversation_id, now>>
    /\ UNCHANGED workerVars
    /\ UNCHANGED toolVars

\* a second of wall-clock time passes
Tick ==
    /\ now < MaxTime
    /\ now' = now + 1
    /\ UNCHANGED <<storeVars, variant, phase, memVars, conversation_context, call,
                   appended, last_recall, event, pending>>
    /\ UNCHANGED workerVars
    /\ UNCHANGED toolVars

(***************************************************************************)
(* The worker: the process-wide mapping _memory_instances and the jobs    *)
(* (one thread each, JobExecutorType.THREAD) whose entrypoint and room     *)
(* handlers use it.                                                        *)
(***************************************************************************)
WorkerUsers == {"alice", "bob"}
AgentIdentity == "agent-7"
\* the identities that join each job's room after the job has started,
\* each at most once
Participants(j) == IF j = 1 THEN {"bob", AgentIdentity} ELSE {"alice", "bob"}
\* the arguments of the calls of clear_memory_cache ("" standing for None)
ClearedUsers == {"alice", ""}
JobIds == {1, 2}
\* the users entrypoint finds or parses from the room's name
StartUsers == {"alice"}
\* the store during a construction: reachable, unreachable, or reachable only
\* for _start_conversation
ConstructorOutcomes == { <<"ok", "ok">>, <<"noconn", "noconn">>, <<"noconn", "ok">> }

\* identity.startswith("agent-")
IsAgent(identity) == Len(identity) >= 6 /\ SubSeq(identity, 1, 6) = "agent-"

\* the user id None, which on_participant_connected takes from a participant
\* whose metadata carries "user_id": null or whose identity is None
NullUser == ""
UserKeys == WorkerUsers \cup {NullUser}

NoEntries == [u \in UserKeys |-> 0]

\* a thread's call of get_postgres_memory: where it is, its arguments, and
\* the instance it constructed (0: none)
NoGet == [pc |-> "none", user |-> "", force |-> FALSE, created |-> 0]

\* entrypoint's locals: user_id, memory, user_memories (order: its keys in
\* insertion order), current_speaker_id (NullUser: None); the participants in
\* the job's room; pc is "idle", "entry" (in entrypoint's get_postgres_memory),
\* "running" (handlers registered), "connecting" (in on_participant_connected's
\* get_postgres_memory) or "crashed" (entrypoint raised)
IdleJob ==
    [pc |-> "idle", user_id |-> "", memory |-> 0, user_memories |-> NoEntries,
     order |-> << >>, current_speaker_id |-> NullUser,
     room |-> {}, gone |-> {}, get |-> NoGet]

\* PostgresMemory(user_id) constructed by job j's thread; users holds a row
\* for every worker user
NewInstance(u, j, force, o1, o2) ==
    LET uid == IF o1 = "ok" THEN FetchOne(UsersWhere("username", u)) ELSE Unset
        st == StartConversation(uid, o2)
    IN  [raised |-> st.raised,
         conversations |-> st.conversations,
         inst |-> [user_id |-> u, db_user_id |-> uid,
                   current_conversation_id |-> st.current_conversation_id,
                   short_term_memory |-> << >>, cached_memories |-> NoText,
                   creator |-> j, forced |-> force, ended_by |-> 0]]

\* an assignment that keeps an entry already present
InstallEntry_KeepFirst(map, u, i) == IF map[u] # 0 THEN map ELSE [map EXCEPT ![u] = i]

\* _memory_instances[user_id] = PostgresMemory(user_id, user_name)
InstallEntry(map, u, i) == [map EXCEPT ![u] = i]

\* if current_speaker_id is None: current_speaker_id = p_user_id
FirstSpeaker(current_speaker_id, p_user_id) ==
    IF current_speaker_id = NullUser THEN p_user_id ELSE current_speaker_id

\* on_participant_disconnected: the first remaining key of user_memories, or
\* None, when the current speaker left
SpeakerAfterLeave(current_speaker_id, p_user_id, order) ==
    IF current_speaker_id = p_user_id
    THEN IF order # << >> THEN Head(order) ELSE NullUser
    ELSE current_speaker_id

\* the caller of get_postgres_memory once the call has returned instance r
\* (r = 0: the call raised)
AfterGet(job, r) ==
    CASE job.pc = "entry" /\ r = 0 -> [job EXCEPT !.pc = "crashed", !.get = NoGet]
      [] job.pc = "entry" /\ r # 0 ->
           [job EXCEPT !.pc = "running", !.memory = r, !.get = NoGet]
      [] job.pc = "connecting" /\ r = 0 -> [job EXCEPT !.pc = "running", !.get = NoGet]
      [] OTHER ->
           [job EXCEPT !.pc = "running", !.get = NoGet,
                       !.user_memories = [@ EXCEPT ![job.get.user] = r],
                       !.order = Append(@, job.get.user),
                       !.current_speaker_id = FirstSpeaker(@, job.get.user)]

workerFrame == <<users, messages, variant, phase, memVars, conversation_context, now,
                 call, appended, last_recall, event, pending, toolVars>>

\* entrypoint up to its call get_postgres_memory(user_id, user_name,
\* force_new=True): the user is a participant found in the room (found), or
\* is parsed from the room's name while the room is still empty
JobStart(j, u, found) ==
    /\ sessions[j].pc = "idle"
    /\ sessions' = [sessions EXCEPT
                      ![j] = [@ EXCEPT !.pc = "entry", !.user_id = u,
                                       !.room = IF found THEN {u} ELSE {},
                                       !.get = [pc |-> "create", user |-> u,
                                                force |-> TRUE, created |-> 0]]]
    /\ UNCHANGED <<memory_instances, instances, conversations>>
    /\ UNCHANGED workerFrame

\* get_postgres_memory: the constructor runs (its store calls block the
\* thread) and the new instance is assigned to the mapping
GetCreate(j, o1, o2) ==
    /\ sessions[j].get.pc = "create"
    /\ LET g == sessions[j].get
           n == NewInstance(g.user, j, g.force, o1, o2)
           new == Len(instances) + 1
       IN  /\ conversations' = n.conversations
           /\ IF n.raised
              THEN /\ sessions' = [sessions EXCEPT ![j] = AfterGet(@, 0)]
                   /\ UNCHANGED <<memory_instances, instances>>
              ELSE /\ instances' = Append(instances, n.inst)
                   /\ memory_instances' = InstallEntry(memory_instances, g.user, new)
                   /\ sessions' = [sessions EXCEPT ![j].get.pc = "return",
                                                   ![j].get.created = new]
    /\ UNCHANGED workerFrame

\* get_postgres_memory: return _memory_instances[user_id]
GetReturn(j) ==
    /\ sessions[j].get.pc = "return"
    /\ LET g == sessions[j].get
           r == memory_instances[g.user]
       IN  /\ sessions' = [sessions EXCEPT ![j] = AfterGet(@, r)]
    /\ UNCHANGED <<memory_instances, instances, conversations>>
    /\ UNCHANGED workerFrame

\* on_participant_connected up to its call get_postgres_memory(p_user_id,
\* p_user_name), whose test `user_id not in _memory_instances` it evaluates
OnParticipantConnected(j, p) ==
    /\ sessions[j].pc = "running"
    /\ p \notin sessions[j].room \cup sessions[j].gone
    /\ IF IsAgent(p)
       THEN sessions' = [sessions EXCEPT ![j].room = @ \cup {p}]
       ELSE IF sessions[j].user_memories[p] # 0
       THEN sessions' = [sessions EXCEPT
                           ![j].room = @ \cup {p},
                           ![j].current_speaker_id = FirstSpeaker(@, p)]
       ELSE sessions' =
               [sessions EXCEPT
                  ![j] = [@ EXCEPT !.pc = "connecting", !.room = @ \cup {p},
                                   !.get = [pc |-> IF memory_instances[p] = 0
                                                   THEN "create" ELSE "return",
                                            user |-> p, force |-> FALSE,
                                            created |-> 0]]]
    /\ UNCHANGED <<memory_instances, instances, conversations>>
    /\ UNCHANGED workerFrame

\* on_participant_disconnected: end_conversation on the instance kept for
\* the user in user_memories, if any
OnParticipantDisconnected(j, p, o) ==
    /\ sessions[j].pc = "running"
    /\ p \in sessions[j].room
    /\ LET i == IF IsAgent(p) THEN 0 ELSE sessions[j].user_memories[p]
           cid == IF i = 0 THEN None ELSE instances[i].current_conversation_id
           \* list(user_memories.keys()) after del user_memories[p_user_id]
           keys == SelectSeq(sessions[j].order, LAMBDA u : u # p)
       IN  /\ instances' = IF i = 0 THEN instances
                           ELSE [instances EXCEPT ![i].ended_by = j]
           /\ conversations' = IF o = "ok" /\ cid # None
                               THEN [conversations EXCEPT ![cid].ended = TRUE]
                               ELSE conversations
           /\ sessions' = [sessions EXCEPT
                             ![j] = [@ EXCEPT
                                       !.room = @ \ {p},
                                       !.gone = @ \cup {p},
                                       !.user_memories =
                                          IF IsAgent(p) THEN @
                                          ELSE [@ EXCEPT ![p] = 0],
                                       !.order = IF IsAgent(p) THEN @ ELSE keys,
                                       !.current_speaker_id =
                                          IF IsAgent(p) THEN @
                                          ELSE SpeakerAfterLeave(@, p, keys)]]
    /\ UNCHANGED memory_instances
    /\ UNCHANGED workerFrame

\* clear_memory_cache(user_id), user_id "" standing for None (all users)
ClearMemoryCache(u) ==
    /\ memory_instances' = IF u = "" THEN NoEntries
                           ELSE [memory_instances EXCEPT ![u] = 0]
    /\ UNCHANGED <<instances, sessions, conversations>>
    /\ UNCHANGED workerFrame

(***************************************************************************)
(* conversation_logger.py: turns logged to the vector store (Qdrant) and   *)
(* to the knowledge-graph store (LightRAG); backup.py: the data-channel    *)
(* variant of the driver, which logs through it.                           *)
(***************************************************************************)
\* what the memory, the voice driver and the worker hold: untouched here
toolFrame == <<storeVars, variant, phase, memVars, conversation_context, now, call,
               appended, last_recall, event, pending, workerVars>>

NoLogCall ==
    [op |-> "none", user_message |-> "", assistant_response |-> "", ret |-> FALSE,
     attempted |-> << >>,
     packet |-> [type |-> "", text |-> "", participant_identity |-> "",
                 is_final |-> FALSE]]

\* the module globals of conversation_logger.py and vector_store.py, the two
\* stores, and backup.py's entrypoint locals (session is "none" before
\* entrypoint, "live" once on_data_received is registered, "failed" when
\* entrypoint raised)
IdleLogger ==
    [vector_store |-> FALSE, points |-> << >>, documents |-> << >>,
     user_id |-> NoText, session_id |-> NoText, session |-> "none",
     context |-> [user_msg |-> NoText, agent_msg |-> NoText],
     intro_sent |-> FALSE, logged |-> << >>, last |-> NoLogCall]

\* the result written `and`: both backends must accept
LogResult_Both(success_qdrant, success_lightrag) == success_qdrant /\ success_lightrag

\* return success_qdrant or success_lightrag
LogResult(success_qdrant, success_lightrag) == success_qdrant \/ success_lightrag

\* log_conversation_turn: [ret, vector_store, points, documents, attempted].
\* o1 is the vector store's outcome: the point was upserted ("ok"),
\* add_conversation caught an exception and returned False ("fail"), or
\* get_vector_store() raised while constructing the global instance
\* ("raise"); o2 is LightRAG's: status 200/201/202 ("ok"), another status
\* ("status"), or add_conversation caught an exception ("fail")
LogTurn(lg, user_message, assistant_response, o1, o2) ==
    IF user_message = "" \/ assistant_response = ""
    THEN [ret |-> FALSE, vector_store |-> lg.vector_store, points |-> lg.points,
          documents |-> lg.documents, attempted |-> << >>]
    ELSE LET rec == [user_id |-> lg.user_id, session_id |-> lg.session_id,
                     user_message |-> user_message,
                     assistant_response |-> assistant_response]
             success_qdrant == o1 = "ok"
             afterQdrant == << "qdrant" >>
             success_lightrag == o2 = "ok"
             afterLightrag == Append(afterQdrant, "lightrag")
         IN  [ret |-> LogResult(success_qdrant, success_lightrag),
              vector_store |-> lg.vector_store \/ o1 # "raise",
              points |-> IF success_qdrant THEN Append(lg.points, rec) ELSE lg.points,
              documents |-> IF success_lightrag THEN Append(lg.documents, rec)
                            ELSE lg.documents,
              attempted |-> afterLightrag]

\* set_user_context(user_id, session_id)
SetUserContext(user_id, session_id) ==
    /\ logger' = [logger EXCEPT !.user_id = Some(user_id),
                                !.session_id = Some(session_id),
                                !.last = [NoLogCall EXCEPT !.op = "set_user_context"]]
    /\ UNCHANGED <<loader, admin>>
    /\ UNCHANGED toolFrame

\* log_conversation_turn(user_message, assistant_response) called directly
LogConversationTurn(user_message, assistant_response, o1, o2) ==
    /\ o1 = "raise" => ~logger.vector_store
    /\ LET r == LogTurn(logger, user_message, assistant_response, o1, o2)
       IN  logger' = [logger EXCEPT
                        !.vector_store = r.vector_store,
                        !.points = r.points,
                        !.documents = r.documents,
                        !.last = [op |-> "log_conversation_turn",
                                  user_message |-> user_message,
                                  assistant_response |-> assistant_response,
                                  ret |-> r.ret, attempted |-> r.attempted,
                                  packet |-> NoLogCall.packet]]
    /\ UNCHANGED <<loader, admin>>
    /\ UNCHANGED toolFrame

\* the lowercase letter of each uppercase letter
LowerTable ==
    LET upper == "ABCDEFGHIJKLMNOPQRSTUVWXYZ"
        lower == "abcdefghijklmnopqrstuvwxyz"
    IN  [c \in { SubSeq(upper, i, i) : i \in 1..Len(upper) } |->
           LET i == CHOOSE k \in 1..Len(upper) : SubSeq(upper, k, k) = c
           IN  SubSeq(lower, i, i)]

\* str.lower(), on the letters of the identities
RECURSIVE Lower(_)
Lower(s) ==
    IF s = "" THEN ""
    ELSE LET c == SubSeq(s, 1, 1)
         IN  (IF c \in DOMAIN LowerTable THEN LowerTable[c] ELSE c)
                \o Lower(SubSeq(s, 2, Len(s)))

\* "agent" in participant.lower() or participant == assistant.__class__.__name__
IsAgentSender(participant) ==
    Contains(Lower(participant), "agent") \/ participant = "Assistant"

\* backup.py entrypoint: get_vector_store(), set_user_context(room name,
\* room sid), a new conversation_context, on_data_received registered
BackupEntrypoint(room_name, sid, o) ==
    /\ logger.session = "none"
    /\ o = "raise" => ~logger.vector_store
    /\ logger' =
          IF o = "raise"
          THEN [logger EXCEPT !.session = "failed",
                              !.last = [NoLogCall EXCEPT !.op = "entrypoint"]]
          ELSE [logger EXCEPT
                  !.vector_store = TRUE,
                  !.user_id = Some(IF room_name = "" THEN "default_room" ELSE room_name),
                  !.session_id = Some(sid),
                  !.context = [user_msg |-> NoText, agent_msg |-> NoText],
                  !.intro_sent = FALSE,
                  !.session = "live",
                  !.last = [NoLogCall EXCEPT !.op = "entrypoint"]]
    /\ UNCHANGED <<loader, admin>>
    /\ UNCHANGED toolFrame

\* the slots that keep the user message after the turn was logged
ContextAfterLog_KeepsUser(ctx) == [ctx EXCEPT !.agent_msg = NoText]

\* conversation_context after log_conversation_turn returned
ContextAfterLog(ctx) == [user_msg |-> NoText, agent_msg |-> NoText]

\* @ctx.room.on("data_received"); packet is the decoded JSON object (type
\* "malformed": json.loads raised, which the handler swallows)
OnDataReceived(packet, o1, o2) ==
    /\ logger.session = "live"
    /\ LET ctx == logger.context
           text == packet.text
           handled == packet.type = "transcription" /\ packet.is_final /\ text # ""
           is_agent == IsAgentSender(packet.participant_identity)
           held == [ctx EXCEPT !.agent_msg = Some(text)]
           logs == handled /\ is_agent /\ Truthy(held.user_msg)
           r == LogTurn(logger, held.user_msg[1], held.agent_msg[1], o1, o2)
           seen == [NoLogCall EXCEPT !.op = "on_data_received", !.packet = packet]
       IN  logger' =
              CASE logs ->
                     [logger EXCEPT
                        !.points = r.points,
                        !.documents = r.documents,
                        !.context = ContextAfterLog(held),
                        !.logged = Append(@, [user |-> held.user_msg[1],
                                              agent |-> held.agent_msg[1]]),
                        !.last = [seen EXCEPT !.user_message = held.user_msg[1],
                                              !.assistant_response = held.agent_msg[1],
                                              !.ret = r.ret,
                                              !.attempted = r.attempted]]
                [] handled /\ is_agent /\ ~logs ->
                     [logger EXCEPT !.context = held, !.last = seen]
                [] handled /\ ~is_agent ->
                     [logger EXCEPT !.context = [ctx EXCEPT !.user_msg = Some(text)],
                                    !.intro_sent = TRUE,
                                    !.last = seen]
                [] OTHER -> [logger EXCEPT !.last = seen]
    /\ UNCHANGED <<loader, admin>>
    /\ UNCHANGED toolFrame

(***************************************************************************)
(* vector_store.py: the educational-content methods; populate_qdrant.py   *)
(* and test_vector_store.py, which call them.                              *)
(***************************************************************************)
\* QdrantVectorStore.add_ncert_content(*args, **kwargs)
AddNcertContent(content) == FALSE

\* QdrantVectorStore.search_ncert_content(*args, **kwargs)
SearchNcertContent(query) == << >>

IdleLoader ==
    [op |-> "none", folder |-> << >>, total_processed |-> 0, total_failed |-> 0,
     success |-> FALSE, results |-> << >>]

\* the loop of load_pdfs_from_folder over the texts of the first n files:
\* [total_processed, total_failed]
RECURSIVE LoadCounts(_, _)
LoadCounts(folder, n) ==
    IF n = 0 THEN [total_processed |-> 0, total_failed |-> 0]
    ELSE LET c == LoadCounts(folder, n - 1)
             text == folder[n]
         IN  IF text = "" THEN [c EXCEPT !.total_failed = @ + 1]
             ELSE IF AddNcertContent(text)
                  THEN [c EXCEPT !.total_processed = @ + 1]
                  ELSE [c EXCEPT !.total_failed = @ + 1]

\* load_pdfs_from_folder over a folder holding the PDF files folder
LoadPdfsFromFolder(folder) ==
    /\ LET c == LoadCounts(folder, Len(folder))
       IN  loader' = [IdleLoader EXCEPT !.op = "load_pdfs_from_folder",
                                        !.folder = folder,
                                        !.total_processed = c.total_processed,
                                        !.total_failed = c.total_failed]
    /\ UNCHANGED <<logger, admin>>
    /\ UNCHANGED toolFrame

\* test_vector_store.main: add one content, return if it failed, else search
TestVectorStore(content, query) ==
    /\ LET success == AddNcertContent(content)
       IN  loader' = [IdleLoader EXCEPT
                        !.op = "test_vector_store",
                        !.folder = << content >>,
                        !.success = success,
                        !.results = IF success THEN SearchNcertContent(query) ELSE << >>]
    /\ UNCHANGED <<logger, admin>>
    /\ UNCHANGED toolFrame

(***************************************************************************)
(* admin_panel.py: toggle_user and delete_user, each one transaction on    *)
(* its own connection.                                                     *)
(***************************************************************************)
\* the rows the tables may hold when a request arrives
SeedUsers(a, b) ==
    { [id |-> 1, username |-> "alice", is_active |-> a],
      [id |-> 2, username |-> "bob", is_active |-> b] }
SeedSessions == { [id |-> 1, user_id |-> 1], [id |-> 2, user_id |-> 1], [id |-> 3, user_id |-> 2] }
SeedProgress == { [id |-> 1, user_id |-> 1], [id |-> 2, user_id |-> 2] }
SeedConversations == { [id |-> 1, user_id |-> 1], [id |-> 2, user_id |-> 2] }

IdleAdmin ==
    [users |-> {}, sessions |-> {}, learning_progress |-> {}, conversations |-> {},
     last |-> [op |-> "none", username |-> "", result |-> ""]]

\* the tables of an admin record
Tables(a) ==
    [users |-> a.users, sessions |-> a.sessions,
     learning_progress |-> a.learning_progress, conversations |-> a.conversations]

\* SELECT ... FROM users WHERE username = %s; cur.fetchone()
UserNamed(db, username) == { u \in db.users : u.username = username }

\* DELETE FROM <table> WHERE user_id = %s
Without(rows, user_id) == { r \in rows : r.user_id # user_id }

\* the writes of toggle_user without the DELETE
ToggleWrites_KeepsSessions(db, user, new_status) ==
    [db EXCEPT !.users = (@ \ {user}) \cup {[user EXCEPT !.is_active = new_status]}]

\* the writes of toggle_user inside its transaction
ToggleWrites(db, user, new_status) ==
    LET updated == [db EXCEPT !.users = (@ \ {user})
                                         \cup {[user EXCEPT !.is_active = new_status]}]
    IN  IF ~new_status
        THEN [updated EXCEPT !.sessions = Without(@, user.id)]
        ELSE updated

\* the statements of delete_user executed before the one that fails, each
\* committed on its own
DeleteWrites_Autocommit(db, user, o) ==
    LET d1 == IF o = "sessions" THEN db ELSE [db EXCEPT !.sessions = Without(@, user.id)]
        d2 == IF o \in {"sessions", "learning_progress"} THEN d1
              ELSE [d1 EXCEPT !.learning_progress = Without(@, user.id)]
        d3 == IF o \in {"sessions", "learning_progress", "conversations"} THEN d2
              ELSE [d2 EXCEPT !.conversations = Without(@, user.id)]
    IN  IF o \in {"sessions", "learning_progress", "conversations", "users"} THEN d3
        ELSE [d3 EXCEPT !.users = @ \ {user}]

\* the tables after delete_user's try block: the four DELETEs committed
\* together, or rolled back when a statement or the commit raised
DeleteWrites(db, user, o) ==
    IF o \in {"sessions", "learning_progress", "conversations", "users", "commit"}
    THEN db
    ELSE [db EXCEPT !.sessions = Without(@, user.id),
                    !.learning_progress = Without(@, user.id),
                    !.conversations = Without(@, user.id),
                    !.users = @ \ {user}]

\* /toggle/<username>; o is where the request fails: nowhere ("ok"), in
\* get_connection or in the SELECT (both outside the try block), in one of
\* the statements of the try block, or in commit
ToggleUser(username, o) ==
    /\ LET db == Tables(admin)
           found == UserNamed(db, username)
           user == CHOOSE u \in found : TRUE
           new_status == ~user.is_active
           failed == o \in {"update", "commit"} \/ (o = "delete" /\ ~new_status)
           after == IF failed THEN db ELSE ToggleWrites(db, user, new_status)
           request == [op |-> "toggle_user", username |-> username, result |-> ""]
       IN  admin' =
              CASE o \in {"connect", "select"} ->
                     [admin EXCEPT !.last = [request EXCEPT !.result = "raised"]]
                [] o \notin {"connect", "select"} /\ found = {} ->
                     [admin EXCEPT !.last = [request EXCEPT !.result = "not_found"]]
                [] OTHER ->
                     [users |-> after.users, sessions |-> after.sessions,
                      learning_progress |-> after.learning_progress,
                      conversations |-> after.conversations,
                      last |-> [request EXCEPT
                                  !.result = IF failed THEN "error"
                                             ELSE IF new_status THEN "enabled"
                                             ELSE "disabled"]]
    /\ UNCHANGED <<logger, loader>>
    /\ UNCHANGED toolFrame

\* /delete/<username>; o as in ToggleUser
DeleteUser(username, o) ==
    /\ LET db == Tables(admin)
           found == UserNamed(db, username)
           user == CHOOSE u \in found : TRUE
           after == DeleteWrites(db, user, o)
           request == [op |-> "delete_user", username |-> username, result |-> ""]
       IN  admin' =
              CASE o \in {"connect", "select"} ->
                     [admin EXCEPT !.last = [request EXCEPT !.result = "raised"]]
                [] o \notin {"connect", "select"} /\ found = {} ->
                     [admin EXCEPT !.last = [request EXCEPT !.result = "not_found"]]
                [] OTHER ->
                     [users |-> after.users, sessions |-> after.sessions,
                      learning_progress |-> after.learning_progress,
                      conversations |-> after.conversations,
                      last |-> [request EXCEPT
                                  !.result = IF o = "ok" THEN "deleted" ELSE "error"]]
    /\ UNCHANGED <<logger, loader>>
    /\ UNCHANGED toolFrame

(***************************************************************************)
(* The user's speech as the platform reports it to the voice driver: each  *)
(* utterance yields one final transcription and one chat item of role      *)
(* user.                                                                   *)
(***************************************************************************)
Utterances == {"hi", "yo"}

(***************************************************************************)
(* Specification of one PostgresMemory instance used through its methods. *)
(***************************************************************************)
InitStore(n) ==
    /\ users = SeedStore(n).users
    /\ conversations = SeedStore(n).conversations
    /\ messages = SeedStore(n).messages

InitRest ==
    /\ db_user_id = Unset
    /\ current_conversation_id = None
    /\ short_term_memory = << >>
    /\ cached_memories = NoText
    /\ conversation_context = NoContext
    /\ now = 0
    /\ call = NoCall
    /\ appended = << >>
    /\ last_recall = NoText
    /\ event = NoEvent
    /\ pending = NoText

InitWorkerIdle ==
    /\ memory_instances = NoEntries
    /\ instances = << >>
    /\ sessions = [j \in JobIds |-> IdleJob]

InitToolsIdle ==
    /\ logger = IdleLogger
    /\ loader = IdleLoader
    /\ admin = IdleAdmin
    /\ spoken = [u \in Utterances |-> [transcribed |-> FALSE, item |-> FALSE]]

Init ==
    /\ \E n \in SeedSizes : InitStore(n)
    /\ variant = "PostgresMemory"
    /\ phase = "new"
    /\ InitRest
    /\ InitWorkerIdle
    /\ InitToolsIdle

Next ==
    \/ \E o1, o2 \in Outcomes : Construct(o1, o2) /\ UNCHANGED spoken
    \/ \E t \in Turns, o1, o2 \in Outcomes :
          Len(appended) < MaxAppends /\ AddToShortTerm(t[1], t[2], o1, o2)
                                     /\ UNCHANGED spoken
    \/ \E q \in Queries, o \in Outcomes : RecallMemories(q, o) /\ UNCHANGED spoken
    \/ \E q \in Queries, o \in Outcomes : GetMemoryContextPrompt(q, o) /\ UNCHANGED spoken
    \/ \E o \in Outcomes : EndConversation(o) /\ UNCHANGED spoken
    \/ \E c \in DirectContents, o \in Outcomes : AddMessage("user", c, o) /\ UNCHANGED spoken
    \/ \E c \in 1..Len(conversations), x \in OtherContents :
          OtherSessionWrites(c, x) /\ UNCHANGED spoken

Spec == Init /\ [][Next]_vars

(***************************************************************************)
(* Specification of the short-term buffer of either class under long runs *)
(* of appends.                                                             *)
(***************************************************************************)
InitBuf ==
    /\ \/ (\E n \in {0, 3} : InitStore(n)) /\ variant = "PostgresMemory" /\ phase = "new"
       \/ InitStore(0) /\ variant = "GyanikaBrain" /\ phase = "live"
    /\ InitRest
    /\ InitWorkerIdle
    /\ InitToolsIdle

NextBuf ==
    \/ \E o1, o2 \in Outcomes : Construct(o1, o2) /\ UNCHANGED spoken
    \/ \E t \in BufTurns :
          Len(appended) < MaxBufAppends /\ AddToShortTerm(t[1], t[2], "ok", "ok")
                                        /\ UNCHANGED spoken
    \/ \E q \in Queries, o \in Outcomes : GetMemoryContextPrompt(q, o) /\ UNCHANGED spoken
    \/ \E t \in BufTurns :
          Len(appended) < MaxBrainAppends /\ BrainAddToShortTerm(t[1], t[2])
                                          /\ UNCHANGED spoken

SpecBuf == InitBuf /\ [][NextBuf]_vars

(***************************************************************************)
(* Specification of one voice session: the driver's handlers on top of    *)
(* its memory instance.                                                    *)
(***************************************************************************)
Transcripts == {"hi", " hi ", "  "}
ItemTexts == {"ok", "no", ""}
ItemRoles == {"assistant", "model", "user", "system"}
DriverOutcomes == {"ok", "noconn"}

InitDriver ==
    /\ InitStore(0)
    /\ variant = "PostgresMemory"
    /\ phase = "new"
    /\ InitRest
    /\ InitWorkerIdle
    /\ InitToolsIdle

NextDriver ==
    \/ \E o1, o2, o3 \in DriverOutcomes : Entrypoint(o1, o2, o3) /\ UNCHANGED spoken
    \/ \E t \in Transcripts, f \in BOOLEAN, o \in DriverOutcomes :
          OnUserTranscribed(t, f, o) /\ UNCHANGED spoken
    \/ \E role \in ItemRoles, t \in ItemTexts :
          Len(appended) < MaxDriverAppends /\ OnConversationItem(role, t, "ok", "ok")
                                           /\ UNCHANGED spoken
    \/ \E t \in ItemTexts :
          Len(appended) < MaxDriverAppends /\ OnSpeechCommitted(t, "ok", "ok")
                                           /\ UNCHANGED spoken
    \/ Tick /\ UNCHANGED spoken

SpecDriver == InitDriver /\ [][NextDriver]_vars

(***************************************************************************)
(* Specification of the worker: two jobs, their rooms and the mapping.    *)
(***************************************************************************)
InitWorker ==
    /\ InitStore(3)
    /\ variant = "PostgresMemory"
    /\ phase = "new"
    /\ InitRest
    /\ InitWorkerIdle
    /\ InitToolsIdle

NextWorker ==
    \/ \E j \in JobIds, u \in StartUsers, found \in BOOLEAN :
          JobStart(j, u, found) /\ UNCHANGED spoken
    \/ \E j \in JobIds, o \in ConstructorOutcomes :
          \* the store is unreachable, if ever, while a job starts
          (sessions[j].get.force \/ o = <<"ok", "ok">>) /\ GetCreate(j, o[1], o[2])
                                                       /\ UNCHANGED spoken
    \/ \E j \in JobIds : GetReturn(j) /\ UNCHANGED spoken
    \/ \E j \in JobIds : \E p \in Participants(j) :
          OnParticipantConnected(j, p) /\ UNCHANGED spoken
    \/ \E j \in JobIds : \E p \in sessions[j].room :
          OnParticipantDisconnected(j, p, "ok") /\ UNCHANGED spoken
    \/ \E u \in ClearedUsers : ClearMemoryCache(u) /\ UNCHANGED spoken

SpecWorker == InitWorker /\ [][NextWorker]_vars

(***************************************************************************)
(* Specification of the conversation logger: direct calls and the          *)
(* data-channel driver.                                                    *)
(***************************************************************************)
InitLogger ==
    /\ InitStore(0)
    /\ variant = "PostgresMemory"
    /\ phase = "new"
    /\ InitRest
    /\ InitWorkerIdle
    /\ InitToolsIdle

NextLogger ==
    \/ SetUserContext("test_user_123", "test_session_456") /\ UNCHANGED spoken
    \/ \E u \in {"", "hi"}, a \in {"", "ok"},
           o1 \in {"ok", "fail", "raise"}, o2 \in {"ok", "status", "fail"} :
          /\ Len(logger.points) < MaxLogged
          /\ Len(logger.documents) < MaxLogged
          /\ LogConversationTurn(u, a, o1, o2)
          /\ UNCHANGED spoken

SpecLogger == InitLogger /\ [][NextLogger]_vars

(***************************************************************************)
(* Specification of backup.py: one session and the data packets it        *)
(* receives.                                                               *)
(***************************************************************************)
\* both backends accept a logged turn, or neither does
NextBackup ==
    \/ \E r \in {"", "room_alice"}, o \in {"ok", "raise"} :
          BackupEntrypoint(r, "RM_1", o) /\ UNCHANGED spoken
    \/ \E ty \in {"transcription", "chat"}, t \in {"", "hi", "yo"},
           id \in {"alice", "Agent-7", "Assistant"}, f \in BOOLEAN,
           o \in { <<"ok", "ok">>, <<"fail", "fail">> } :
          /\ Len(logger.logged) < MaxLogged
          /\ OnDataReceived([type |-> ty, text |-> t, participant_identity |-> id,
                             is_final |-> f], o[1], o[2])
          /\ UNCHANGED spoken

SpecBackup == InitLogger /\ [][NextBackup]_vars

(***************************************************************************)
(* Specification of the knowledge-base loader and of the vector-store     *)
(* test script.                                                            *)
(***************************************************************************)
\* a folder is the sequence of the texts extract_text_from_pdf returns for
\* its files ("" when nothing was extracted)
NextLoader ==
    \/ \E folder \in UNION { [1..n -> {"", "Photosynthesis"}] : n \in 0..MaxFiles } :
          LoadPdfsFromFolder(folder) /\ UNCHANGED spoken
    \/ TestVectorStore("Photosynthesis", "how do plants make food") /\ UNCHANGED spoken

SpecLoader == InitLogger /\ [][NextLoader]_vars

(***************************************************************************)
(* Specification of the admin panel: requests on every seeding of the      *)
(* tables.                                                                 *)
(***************************************************************************)
InitAdmin ==
    /\ InitStore(0)
    /\ variant = "PostgresMemory"
    /\ phase = "new"
    /\ InitRest
    /\ InitWorkerIdle
    /\ logger = IdleLogger
    /\ loader = IdleLoader
    /\ spoken = [u \in Utterances |-> [transcribed |-> FALSE, item |-> FALSE]]
    /\ \E a, b \in BOOLEAN, ss \in SUBSET SeedSessions, lp \in SUBSET SeedProgress,
           cs \in SUBSET SeedConversations :
          admin = [users |-> SeedUsers(a, b), sessions |-> ss,
                   learning_progress |-> lp, conversations |-> cs, last |-> IdleAdmin.last]

NextAdmin ==
    \/ \E u \in {"alice", "bob", "carol"},
           o \in {"ok", "connect", "select", "update", "delete", "commit"} :
          ToggleUser(u, o) /\ UNCHANGED spoken
    \/ \E u \in {"alice", "bob", "carol"},
           o \in {"ok", "connect", "select", "sessions", "learning_progress",
                  "conversations", "users", "commit"} :
          DeleteUser(u, o) /\ UNCHANGED spoken

SpecAdmin == InitAdmin /\ [][NextAdmin]_vars

(***************************************************************************)
(* Specification of one voice session in which every utterance is         *)
(* reported once on each channel, in any order with the assistant's        *)
(* events.                                                                 *)
(***************************************************************************)
NextUtterance ==
    \/ Entrypoint("ok", "ok", "ok") /\ UNCHANGED spoken
    \/ \E u \in Utterances :
          /\ ~spoken[u].transcribed
          /\ OnUserTranscribed(u, TRUE, "ok")
          /\ spoken' = [spoken EXCEPT ![u].transcribed = TRUE]
    \/ \E u \in Utterances :
          /\ ~spoken[u].item
          /\ OnConversationItem("user", u, "ok", "ok")
          /\ spoken' = [spoken EXCEPT ![u].item = TRUE]
    \/ \E t \in {"ok", "no"} :
          /\ Len(appended) < MaxDriverAppends
          /\ OnConversationItem("assistant", t, "ok", "ok")
          /\ UNCHANGED spoken
    \/ \E t \in {"ok", "no"} :
          /\ Len(appended) < MaxDriverAppends
          /\ OnSpeechCommitted(t, "ok", "ok")
          /\ UNCHANGED spoken

SpecUtterance == InitDriver /\ [][NextUtterance]_vars

(***************************************************************************)
(* Specification of one room: a job, the participants that join and leave *)
(* it.                                                                     *)
(***************************************************************************)
NextRoom ==
    \/ \E u \in StartUsers, found \in BOOLEAN : JobStart(1, u, found) /\ UNCHANGED spoken
    \/ \E o \in ConstructorOutcomes : GetCreate(1, o[1], o[2]) /\ UNCHANGED spoken
    \/ GetReturn(1) /\ UNCHANGED spoken
    \/ \E p \in {"alice", "bob", NullUser, AgentIdentity} :
          OnParticipantConnected(1, p) /\ UNCHANGED spoken
    \/ \E p \in sessions[1].room, o \in {"ok", "noconn"} :
          OnParticipantDisconnected(1, p, o) /\ UNCHANGED spoken

SpecRoom == InitWorker /\ [][NextRoom]_vars

(***************************************************************************)
(* Properties.                                                             *)
(***************************************************************************)
RecallOps == {"recall_memories", "get_memory_context_prompt"}

Capacity == IF variant = "PostgresMemory" THEN ShortTermCap ELSE BrainShortTermCap

\* C1: after every append the short-term buffer holds at most N turns (5 in
\* PostgresMemory, 10 in GyanikaBrain), and they are exactly the min(k, N)
\* most recently appended turns, in append order, k being the number of
\* appends so far.
C1_BufferHoldsMostRecent ==
    LET k == Len(appended)
        n == Len(short_term_memory)
    IN  /\ n <= Capacity
        /\ n = Min(k, Capacity)
        /\ \A i \in 1..n : short_term_memory[i] = appended[k - n + i]

\* the spec's example: 12 appends into the buffer of capacity 10 leave turns 3..12
C1_Witness ==
    /\ variant = "GyanikaBrain"
    /\ Len(appended) = 12
    /\ Len(short_term_memory) = 10
    /\ short_term_memory[1] = appended[3]
    /\ appended[1] # appended[3]

\* C2 as stated: a recall that follows another recall with no append between
\* them returns the same text, whatever the first call met.
C2_Original ==
    [][ (call'.op \in RecallOps /\ ~call'.raised /\ last_recall # NoText)
        => (last_recall' # NoText /\ last_recall'[1].text = last_recall[1].text) ]_vars

\* C2, amended: a recall that follows, with no append between them, a recall
\* that populated the cache (it read the store successfully) returns the same
\* text, whatever the query and whatever other sessions wrote in between.
C2_RecallMemoized ==
    [][ (call'.op \in RecallOps /\ ~call'.raised /\ last_recall # NoText
         /\ last_recall[1].cached)
        => (last_recall' # NoText /\ last_recall'[1].text = last_recall[1].text) ]_vars

\* the text this instance would be given by the store now
FreshPast ==
    LET past == QueryPast(messages, conversations, db_user_id, current_conversation_id)
    IN  IF past = << >> THEN "" ELSE FormatPast(past)

\* a recall answered from the cache although another session has written
\* since: the store would now give another text
C2_Witness ==
    /\ call.op = "recall_memories"
    /\ call.io = << >>
    /\ call.ret # ""
    /\ call.ret # FreshPast

\* C3: every add_to_short_term leaves the cache unpopulated, nothing else
\* ever unpopulates it, and a recall that finds it unpopulated goes to the
\* store (only a populated cache answers without store traffic).
C3_CacheClearedOnlyByAppend ==
    /\ [](call.op = "add_to_short_term" => cached_memories = NoText)
    /\ []((call.op \in RecallOps /\ call.io = << >>) => cached_memories # NoText)
    /\ [][ (cached_memories # NoText /\ cached_memories' = NoText)
           => (call'.op = "add_to_short_term" /\ appended' # appended) ]_vars

\* an append has just cleared a cache that held a text
C3_Witness ==
    /\ call.op = "add_to_short_term"
    /\ cached_memories = NoText
    /\ Len(appended) = 1
    /\ FreshPast # ""
    /\ conversations[2].ended

\* the users row the instance's user_id names
NamedUser == FetchOne({ i \in 1..Len(users) : users[i].username = UserId })

\* messages of the named user's conversations other than the current one
PastOf(uid) ==
    LET Mine(m) == conversations[m.conversation_id].user_id = uid
                   /\ m.conversation_id # current_conversation_id
    IN  SelectSeq(messages, Mine)

\* C4 as stated: recall for a user with no stored message outside the
\* current conversation returns the empty text and raises nothing.
C4_NewUserRecallEmpty ==
    (call.op = "recall_memories" /\ (NamedUser = None \/ PastOf(NamedUser) = << >>))
        => (~call.raised /\ call.ret = "")

\* a step of the driver's transcription handler
TranscribedStep == event'.name = "user_input_transcribed" /\ now' = now

\* an identical final utterance less than 2 seconds after the accepted one
\* is dropped: nothing of the driver, the buffer or the store changes
DuplicateDropped ==
    (TranscribedStep /\ event'.verdict # "ignored"
     /\ conversation_context.last_transcription = Some(event'.text)
     /\ now - conversation_context.last_transcription_time < DebounceSeconds)
        => /\ event'.verdict = "duplicate"
           /\ UNCHANGED <<conversation_context, pending, appended, short_term_memory,
                          messages>>

\* an identical final utterance 2 seconds or more after the accepted one is
\* accepted as the pending user message
RepeatAccepted ==
    (TranscribedStep /\ event'.verdict # "ignored"
     /\ conversation_context.last_transcription = Some(event'.text)
     /\ now - conversation_context.last_transcription_time >= DebounceSeconds)
        => /\ event'.verdict = "accepted"
           /\ conversation_context'.user_msg = Some(event'.text)
           /\ pending' = Some([text |-> event'.text, at |-> now])

\* the assistant's answer (a conversation item with text) arrives while an
\* accepted utterance is pending
AnswerStep ==
    /\ event'.name = "conversation_item_added"
    /\ event'.verdict = "assistant"
    /\ now' = now
    /\ pending # NoText

AnsweredTurn == [user |-> pending[1].text, agent |-> event'.text, timestamp |-> now]

\* C5 as stated: a repeat within 2 seconds is dropped, a repeat after 2
\* seconds or more is accepted, and every accepted utterance is appended as
\* a turn once the assistant has answered it.
C5_Original ==
    [][ /\ DuplicateDropped
        /\ RepeatAccepted
        /\ AnswerStep => appended' = Append(appended, AnsweredTurn) ]_vars

\* C5, amended: as stated, except that the answered utterance is not
\* appended when it and its answer equal the pair saved last.
C5_DebounceAndSave ==
    [][ /\ DuplicateDropped
        /\ RepeatAccepted
        /\ AnswerStep =>
              IF /\ conversation_context.last_saved_user_msg = Some(pending[1].text)
                 /\ conversation_context.last_saved_agent_msg = Some(event'.text)
              THEN appended' = appended
              ELSE appended' = Append(appended, AnsweredTurn) ]_vars

\* the same utterance accepted twice, the second time 2 seconds or more after
\* the first, and both appended
C5_Witness ==
    /\ Len(appended) = 2
    /\ appended[1].user = "hi"
    /\ appended[2].user = "hi"
    /\ conversation_context.last_transcription = Some("hi")
    /\ conversation_context.last_transcription_time >= appended[1].timestamp + DebounceSeconds

\* a step of recall_memories that found the cache unpopulated
RecallMissStep ==
    /\ call'.op = "recall_memories"
    /\ messages' = messages
    /\ cached_memories = NoText

\* the store answered: a connection was obtained and no query raised
StoreAnswered(io) == io \in { << "connect" >>, << "connect", "execute", "close" >> }

\* the formatting of the min(10, m) most recent of the m messages past
ExpectedRecall(past) ==
    LET m == Len(past)
        n == Min(PastShown, m)
    IN  IF m = 0 THEN ""
        ELSE "## Brief History with " \o UserName \o "\n\n"
             \o Concat([i \in 1..n |-> PastLine(past[m - n + i])])

\* no message outside past shows in the text
OnlyFrom(past, text) ==
    \A i \in 1..Len(messages) :
        (\A j \in 1..Len(past) : past[j].content # messages[i].content)
            => (Strip(messages[i].content) = "" \/ ~Contains(text, messages[i].content))

First80(s) == SubSeq(s, 1, Min(RecentCut, Len(s)))

PromptReturned ==
    /\ call.op = "get_memory_context_prompt"
    /\ ~call.raised
    /\ last_recall # NoText

\* the header, the last min(3, len) buffer entries in order, then the recalled text
ComposedPrompt ==
    LET n == Len(short_term_memory)
        k == Min(RecentShown, n)
        Line(t) == "- User: " \o Truncate(t.user, RecentCut) \o "\n- Gyanika: "
                   \o Truncate(t.agent, RecentCut) \o "\n"
    IN  "# Memory for " \o UserName \o "\n"
        \o (IF n = 0 THEN ""
            ELSE "## Recent (Current Session)\n"
                 \o Concat([i \in 1..k |-> Line(short_term_memory[n - k + i])]))
        \o "\n" \o last_recall[1].text

PromptComposed ==
    /\ call.ret = "" <=> (short_term_memory = << >> /\ last_recall[1].text = "")
    /\ call.ret # "" => call.ret = Strip(ComposedPrompt)

LastTurn == short_term_memory[Len(short_term_memory)]

\* C7 as stated: the prompt is the last min(3, len) buffer entries in order
\* followed by the recalled text, is empty exactly when both are, and holds
\* the last appended turn's two messages, each cut to its first 80 characters.
C7_Original ==
    PromptReturned =>
        /\ PromptComposed
        /\ short_term_memory # << >> =>
              /\ Contains(call.ret, First80(LastTurn.user))
              /\ Contains(call.ret, First80(LastTurn.agent))

\* C7, amended: the same, the whole text being stripped of the whitespace at
\* its ends, so that an assistant message that ends the text shows without
\* its trailing whitespace.
C7_PromptRendersRecent ==
    PromptReturned =>
        /\ PromptComposed
        /\ short_term_memory # << >> =>
              /\ Contains(call.ret, First80(LastTurn.user))
              /\ \/ Contains(call.ret, First80(LastTurn.agent))
                 \/ EndsWith(call.ret, RStrip(First80(LastTurn.agent)))

\* a prompt over a buffer of more than 3 turns whose last assistant message
\* ends in whitespace, with nothing recalled
C7_Witness ==
    /\ PromptReturned
    /\ Len(short_term_memory) > RecentShown
    /\ Len(appended) > ShortTermCap
    /\ LastTurn.agent = "ok \n"
    /\ short_term_memory[Len(short_term_memory) - 1].user = LongText
    /\ last_recall[1].text = ""

FullWrite == << "connect", "execute", "commit", "close" >>

\* C8: an add_to_short_term whose persistence failed (no connection, no open
\* conversation or a raising INSERT) returns normally with the turn in the
\* buffer and the cache cleared, and changes nothing else of the instance.
C8_FailedPersistenceKeepsBuffer ==
    [][ (appended' # appended /\ call'.io # FullWrite \o FullWrite)
        => /\ call'.op = "add_to_short_term"
           /\ ~call'.raised
           /\ short_term_memory' =
                 LastN(Append(short_term_memory, appended'[Len(appended')]), ShortTermCap)
           /\ cached_memories' = NoText
           /\ UNCHANGED <<phase, db_user_id, current_conversation_id, users,
                          conversations>>
           /\ Len(messages') <= Len(messages) + 1 ]_vars

\* an append that wrote nothing for lack of a connection, in an open
\* conversation of a user with stored history
C8_Witness ==
    /\ call.op = "add_to_short_term"
    /\ call.io = << "connect_fail", "connect_fail" >>
    /\ current_conversation_id # None
    /\ Len(short_term_memory) = 1
    /\ cached_memories = NoText
    /\ FreshPast # ""
    /\ \A i \in 1..Len(messages) : messages[i].conversation_id # current_conversation_id

\* C9 as stated: no PostgresMemory operation raises to its caller, whatever
\* the store's availability.
C9_NoOperationRaises == ~call.raised

\* C10 as stated: add_to_short_term with a message that is empty after
\* trimming changes neither the buffer, nor the cache, nor the store.
C10_EmptyTurnIgnored ==
    [][ (/\ appended' # appended
         /\ \/ Strip(appended'[Len(appended')].user) = ""
            \/ Strip(appended'[Len(appended')].agent) = "")
        => UNCHANGED <<short_term_memory, cached_memories, messages>> ]_vars

(***************************************************************************)
(* Properties of the worker.                                               *)
(***************************************************************************)
\* job j's thread runs the constructor inside get_postgres_memory
CreateStep(j) == sessions[j].get.pc = "create" /\ sessions'[j].get.pc # "create"

\* the constructor of that step returned an instance
Constructed(j) == sessions'[j].get.pc = "return"

\* job j's get_postgres_memory returns (or raises KeyError) to its caller
ReturnStep(j) == sessions[j].get.pc = "return" /\ sessions'[j].get.pc = "none"

\* what the caller of that step received: the instance, or 0 when the call raised
Received(j) ==
    IF sessions[j].pc = "entry"
    THEN (IF sessions'[j].pc = "crashed" THEN 0 ELSE sessions'[j].memory)
    ELSE sessions'[j].user_memories[sessions[j].get.user]

\* a participant leaves job j's room
DisconnectStep(j, p) == p \in sessions[j].room /\ p \notin sessions'[j].room

\* C12 as stated: the test, the insertion and the read of get_postgres_memory
\* exclude each other and clear_memory_cache: a call without force_new
\* constructs an instance only while the user has no entry, a call that
\* constructed one returns it, and no call finds the entry missing when it
\* returns.
C12_MappingMutuallyExclusive ==
    [][ \A j \in JobIds :
          LET g == sessions[j].get
          IN  /\ (CreateStep(j) /\ ~g.force) => memory_instances[g.user] = 0
              /\ (ReturnStep(j) /\ ~g.force) =>
                    /\ Received(j) # 0
                    /\ g.created # 0 => Received(j) = g.created ]_vars

\* C13 as stated: an instance is operated on only by the job that
\* constructed it: the memory whose history entrypoint recalls and to which
\* the job's handlers append is the job's own construction, and
\* end_conversation is called on an instance by its constructing job only.
C13_OneWriter ==
    /\ \A j \in JobIds :
          sessions[j].memory # 0 => instances[sessions[j].memory].creator = j
    /\ \A i \in 1..Len(instances) :
          instances[i].ended_by \in {0, instances[i].creator}

\* the instance of job j that records user p's session: entrypoint's memory
\* for the user the job was started for, the user_memories entry for another
RecordingInstance(j, p) ==
    IF p = sessions[j].user_id THEN sessions[j].memory
    ELSE sessions[j].user_memories[p]

\* C14 as stated: when a user leaves a job's room, end_conversation has been
\* called on the instance that records the user's session in that job.
C14_DisconnectEndsSession ==
    [][ \A j \in JobIds : \A p \in WorkerUsers :
          (DisconnectStep(j, p) /\ RecordingInstance(j, p) # 0)
              => instances'[RecordingInstance(j, p)].ended_by # 0 ]_vars

\* the parts of C16 that do not depend on the constructor's outcome: a
\* construction leaves the other users' entries and the older instances as
\* they were, a return changes neither the mapping nor any instance and
\* hands out the entry of the user, and a call without force_new that finds
\* an entry constructs nothing
MappingFrame(j) ==
    LET g == sessions[j].get
    IN  /\ CreateStep(j) =>
              /\ \A v \in WorkerUsers \ {g.user} : memory_instances'[v] = memory_instances[v]
              /\ \A i \in 1..Len(instances) : instances'[i] = instances[i]
        /\ ReturnStep(j) =>
              /\ UNCHANGED <<memory_instances, instances, conversations>>
              /\ Received(j) = memory_instances[g.user]
        /\ (g.pc = "none" /\ sessions'[j].get.pc = "return") =>
              /\ memory_instances[sessions'[j].get.user] # 0
              /\ UNCHANGED <<memory_instances, instances, conversations>>

\* the instance a construction installs for user u
InstalledNew(u) ==
    LET new == Len(instances) + 1
    IN  /\ Len(instances') = new
        /\ memory_instances'[u] = new
        /\ instances'[new].user_id = u
        /\ instances'[new].short_term_memory = << >>
        /\ instances'[new].cached_memories = NoText

\* the conversation of the installed instance is a row inserted by this step
OpenedNew ==
    LET cid == instances'[Len(instances')].current_conversation_id
    IN  /\ cid = Len(conversations) + 1
        /\ Len(conversations') = cid
        /\ ~conversations'[cid].ended

C17_EvictionEndsConversation ==
    [][ \A u \in WorkerUsers :
          (memory_instances[u] # 0 /\ memory_instances'[u] # memory_instances[u])
              => LET cid == instances[memory_instances[u]].current_conversation_id
                 IN  cid # None => conversations'[cid].ended ]_vars

(***************************************************************************)
(* Further properties of the instance and of the driver.                   *)
(***************************************************************************)
\* end_conversation has marked the instance's conversation ended
Ended ==
    /\ current_conversation_id # None
    /\ conversations[current_conversation_id].ended

\* a step of recall_memories called on its own
RecallStep == call'.op = "recall_memories" /\ messages' = messages

\* C11 as stated: on an instance whose conversation has been ended,
\* add_to_short_term and recall_memories fail, and neither the buffer nor
\* the store changes.
C11_EndedIsTerminal ==
    [][ (Ended /\ (appended' # appended \/ RecallStep) /\ call' # call)
        => /\ call'.raised
           /\ UNCHANGED <<short_term_memory, messages>> ]_vars

\* C15 as stated, in its consequence: the exchange is appended as soon as
\* both of its sides are pending, so that between two events the two slots
\* are never both full with a pair that has not been saved.
C15_AppendedOnceBothPresent ==
    LET c == conversation_context
    IN  (Truthy(c.user_msg) /\ Truthy(c.agent_msg))
            => /\ c.user_msg = c.last_saved_user_msg
               /\ c.agent_msg = c.last_saved_agent_msg

\* the part of C15 that holds: add_to_short_term is called only with both
\* slots full, with exactly the pair in them, and leaves both slots empty
AppendsPendingPair ==
    [][ appended' # appended
        => LET c == conversation_context
               t == appended'[Len(appended')]
           IN  /\ Truthy(Some(t.user)) /\ Truthy(Some(t.agent))
               /\ Some(t.user) = c.user_msg
               /\ Some(t.agent) \in {c.agent_msg, Some(event'.text)}
               /\ conversation_context'.user_msg = NoText
               /\ conversation_context'.agent_msg = NoText ]_vars

\* C18: while the cache is populated (a recall has read the store
\* successfully, with an empty or a non-empty result) recall_memories and
\* get_memory_context_prompt make no store call and leave the cache as it is.
C18_NoRefetchWhilePopulated ==
    /\ []((call.op \in RecallOps /\ call.io = << "connect", "execute", "close" >>)
            => cached_memories # NoText)
    /\ [][ (cached_memories # NoText /\ call'.op \in RecallOps /\ call' # call
            /\ messages' = messages /\ appended' = appended)
           => /\ call'.io = << >>
              /\ cached_memories' = cached_memories ]_vars

\* a prompt served from a cache that holds an empty result
C18_Witness ==
    /\ call.op = "get_memory_context_prompt"
    /\ call.io = << >>
    /\ cached_memories = Some("")
    /\ current_conversation_id # None

Count(x, seq) == Cardinality({ i \in 1..Len(seq) : seq[i] = x })

\* the connection attempts and the statements of one call
Attempts(io) == Count("connect", io) + Count("connect_fail", io)
Statements(io) == Count("execute", io) + Count("execute_error", io)

\* the rows a step adds to table messages
NewRows == SubSeq(messages', Len(messages) + 1, Len(messages'))

C20_SynchronousWrite ==
    [][ (/\ appended' # appended
         /\ current_conversation_id # None
         /\ Count("connect_fail", call'.io) = 0
         /\ Count("execute_error", call'.io) = 0)
        => LET t == appended'[Len(appended')]
           IN  messages' = messages \o
                  << [conversation_id |-> current_conversation_id, role |-> "user",
                      content |-> t.user],
                     [conversation_id |-> current_conversation_id, role |-> "assistant",
                      content |-> t.agent] >> ]_vars

\* an append that committed both messages of its turn
C20_Witness ==
    /\ call.op = "add_to_short_term"
    /\ call.io = FullWrite \o FullWrite
    /\ Len(appended) = 1
    /\ Len(messages) >= 2
    /\ messages[Len(messages) - 1] =
          [conversation_id |-> current_conversation_id, role |-> "user",
           content |-> "What is gravity?"]
    /\ messages[Len(messages)].role = "assistant"

(***************************************************************************)
(* conversation_logger.py and backup.py                                    *)
(***************************************************************************)
\* C21: log_conversation_turn returns true exactly when both messages are
\* non-empty and at least one backend stored the turn; with an empty message
\* it returns false and contacts no backend; with both messages present the
\* knowledge-graph store is attempted after the vector store whatever the
\* vector store did
C21_LogTurnResult ==
    [][LET l == logger'.last
           complete == l.user_message # "" /\ l.assistant_response # ""
           accepted == \/ Len(logger'.points) > Len(logger.points)
                       \/ Len(logger'.documents) > Len(logger.documents)
       IN  l.op = "log_conversation_turn" =>
             /\ l.ret <=> (complete /\ accepted)
             /\ ~complete => /\ l.attempted = << >>
                             /\ logger'.points = logger.points
                             /\ logger'.documents = logger.documents
                             /\ logger'.vector_store = logger.vector_store
             /\ complete => l.attempted = <<"qdrant", "lightrag">>]_vars

\* a turn that get_vector_store() refused with an exception and the
\* knowledge-graph store accepted: the call returned true
C21_Witness ==
    /\ logger.last.op = "log_conversation_turn"
    /\ logger.last.ret
    /\ ~logger.vector_store
    /\ logger.points = << >>
    /\ Len(logger.documents) = 1
    /\ logger.last.attempted = <<"qdrant", "lightrag">>

\* C22: add_ncert_content returns true for valid content, a search after it
\* returns a non-empty list, and the loader counts every file whose text
\* was extracted as processed
C22_ContentAdded ==
    /\ loader.op = "test_vector_store" =>
         /\ loader.success
         /\ loader.results # << >>
    /\ loader.op = "load_pdfs_from_folder" =>
         loader.total_processed =
            Cardinality({ i \in 1..Len(loader.folder) : loader.folder[i] # "" })

(***************************************************************************)
(* agent.py: deduplication of saved pairs                                  *)
(***************************************************************************)
\* C23: save_conversation_if_ready never appends a pair equal to the pair of
\* the append before it, and the last-saved pair changes only in a step that
\* appends a turn, to the pair of that turn
C23_PairDedup ==
    [][LET c == conversation_context
           d == conversation_context'
           n == Len(appended)
           grew == appended' # appended
       IN  /\ (d.last_saved_user_msg # c.last_saved_user_msg
                 \/ d.last_saved_agent_msg # c.last_saved_agent_msg)
                => /\ Len(appended') = n + 1
                   /\ SubSeq(appended', 1, n) = appended
                   /\ d.last_saved_user_msg = Some(appended'[n + 1].user)
                   /\ d.last_saved_agent_msg = Some(appended'[n + 1].agent)
           /\ (grew /\ n >= 1)
                => ~(/\ appended'[Len(appended')].user = appended[n].user
                     /\ appended'[Len(appended')].agent = appended[n].agent)]_vars

\* both slots hold the pair saved last: the save is skipped and the slots
\* keep the pair, after exactly one append
C23_Witness ==
    /\ Len(appended) = 1
    /\ Truthy(conversation_context.user_msg)
    /\ Truthy(conversation_context.agent_msg)
    /\ conversation_context.user_msg = conversation_context.last_saved_user_msg
    /\ conversation_context.agent_msg = conversation_context.last_saved_agent_msg
    /\ conversation_context.user_msg = Some(appended[1].user)
    /\ event.name = "conversation_item_added"
    /\ event.verdict = "assistant"

(***************************************************************************)
(* backup.py: turns logged from the data channel                           *)
(***************************************************************************)
\* C24 as stated: a turn is logged exactly when a final agent transcription
\* arrives while a user message is pending
C24_Original ==
    [][LET k == logger'.last.packet
       IN  logger'.last.op = "on_data_received" =>
             ((Len(logger'.logged) > Len(logger.logged))
                <=> /\ k.type = "transcription"
                    /\ k.is_final
                    /\ IsAgentSender(k.participant_identity)
                    /\ Truthy(logger.context.user_msg))]_vars

\* C24: a turn is logged exactly when a final transcription with non-empty
\* text from an agent sender arrives while a user message is pending; the
\* turn pairs the pending user message, which is the text of the latest
\* final non-empty user transcription, with the agent's text; both slots are
\* then cleared, so the user message cannot be logged again
C24_LoggedOnAgentReply ==
    [][LET k == logger'.last.packet
           ctx == logger.context
           final == k.type = "transcription" /\ k.is_final /\ k.text # ""
           agent == IsAgentSender(k.participant_identity)
           fires == final /\ agent /\ Truthy(ctx.user_msg)
       IN  logger'.last.op = "on_data_received" =>
             /\ (Len(logger'.logged) > Len(logger.logged)) <=> fires
             /\ fires =>
                  /\ logger'.logged =
                        Append(logger.logged, [user |-> ctx.user_msg[1], agent |-> k.text])
                  /\ logger'.last.attempted = <<"qdrant", "lightrag">>
                  /\ logger'.context = [user_msg |-> NoText, agent_msg |-> NoText]
             /\ (final /\ ~agent) =>
                  logger'.context = [ctx EXCEPT !.user_msg = Some(k.text)]
             /\ (~fires /\ ~(final /\ ~agent)) =>
                  logger'.context.user_msg = ctx.user_msg]_vars

\* the turn (yo, hi) was logged on the agent's final transcription "hi" and
\* both slots are empty again
C24_Witness ==
    /\ logger.last.op = "on_data_received"
    /\ logger.last.packet.is_final
    /\ logger.last.packet.participant_identity = "Agent-7"
    /\ logger.logged = << [user |-> "yo", agent |-> "hi"] >>
    /\ logger.last.packet.text = "hi"
    /\ logger.context = [user_msg |-> NoText, agent_msg |-> NoText]
    /\ logger.intro_sent

(***************************************************************************)
(* admin_panel.py: toggle_user and delete_user                             *)
(***************************************************************************)
\* C25: a successful toggle_user flips is_active of the named user and of no
\* other; when the new status is disabled all sessions of that user are
\* gone and no other row is; when a statement or the commit fails, or the
\* username is unknown, no table changes
C25_ToggleTransaction ==
    [][LET q == admin'.last
           pre == Tables(admin)
           post == Tables(admin')
           found == UserNamed(pre, q.username)
       IN  q.op = "toggle_user" =>
             /\ found = {} => post = pre
             /\ q.result \in {"raised", "not_found", "error"} => post = pre
             /\ q.result \in {"enabled", "disabled"} =>
                  \E user \in found :
                     /\ q.result = "disabled" <=> user.is_active
                     /\ post.users = (pre.users \ {user})
                                        \cup {[user EXCEPT !.is_active = ~user.is_active]}
                     /\ post.sessions = IF user.is_active
                                        THEN Without(pre.sessions, user.id)
                                        ELSE pre.sessions
                     /\ post.learning_progress = pre.learning_progress
                     /\ post.conversations = pre.conversations]_vars

\* alice was disabled: her sessions are gone, bob's session and her other
\* rows are kept
C25_Witness ==
    /\ admin.last = [op |-> "toggle_user", username |-> "alice", result |-> "disabled"]
    /\ [id |-> 1, username |-> "alice", is_active |-> FALSE] \in admin.users
    /\ admin.sessions = { [id |-> 3, user_id |-> 2] }
    /\ [id |-> 1, user_id |-> 1] \in admin.conversations
    /\ [id |-> 1, user_id |-> 1] \in admin.learning_progress

\* C26: delete_user removes the user's sessions, learning progress,
\* conversations and users row together, or removes nothing when a
\* statement or the commit fails or the username is unknown; rows of other
\* users never change
C26_DeleteAllOrNothing ==
    [][LET q == admin'.last
           pre == Tables(admin)
           post == Tables(admin')
           found == UserNamed(pre, q.username)
       IN  q.op = "delete_user" =>
             /\ q.result # "deleted" => post = pre
             /\ q.result = "deleted" =>
                  \E user \in found :
                     /\ post.users = pre.users \ {user}
                     /\ post.sessions = Without(pre.sessions, user.id)
                     /\ post.learning_progress = Without(pre.learning_progress, user.id)
                     /\ post.conversations = Without(pre.conversations, user.id)]_vars

\* alice was deleted with all her rows; every row of bob is still there
C26_Witness ==
    /\ admin.last = [op |-> "delete_user", username |-> "alice", result |-> "deleted"]
    /\ \A u \in admin.users : u.username = "bob"
    /\ admin.users # {}
    /\ admin.sessions = { [id |-> 3, user_id |-> 2] }
    /\ admin.learning_progress = { [id |-> 2, user_id |-> 2] }
    /\ admin.conversations = { [id |-> 2, user_id |-> 2] }

(***************************************************************************)
(* PostgresMemory: connections and the rows of a turn                      *)
(***************************************************************************)
\* C27: when an operation of PostgresMemory has returned, every connection
\* it obtained has been closed
C27_ConnectionsClosed ==
    Cardinality({ i \in 1..Len(call.io) : call.io[i] = "connect" })
       = Cardinality({ i \in 1..Len(call.io) : call.io[i] = "close" })

\* C28: an add_to_short_term call leaves in the store both messages of its
\* turn or neither
C28_TurnAllOrNothing ==
    [][(call'.op = "add_to_short_term" /\ Len(appended') = Len(appended) + 1)
         => Len(messages') - Len(messages) \in {0, 2}]_vars

(***************************************************************************)
(* agent.py: one utterance, one turn                                       *)
(***************************************************************************)
\* C29: whatever the order of the events, an utterance the user spoke once
\* is the user side of at most one appended turn
C29_UtteranceAppendedOnce ==
    \A u \in Utterances :
       Cardinality({ i \in 1..Len(appended) : appended[i].user = u }) <= 1

(***************************************************************************)
(* agent.py: the current speaker of a room                                 *)
(***************************************************************************)
\* C30: in every room the current speaker is unset exactly when
\* user_memories is empty, and is otherwise one of its keys
C30_SpeakerTracksMap ==
    \A j \in DOMAIN sessions :
       LET job == sessions[j]
           keys == { u \in UserKeys : job.user_memories[u] # 0 }
       IN  /\ (job.current_speaker_id = NullUser) <=> (keys = {})
           /\ job.current_speaker_id # NullUser => job.current_speaker_id \in keys

====
